---- MODULE Spec2Model ----
(***************************************************************************)
(* Indicator engine (core/strategy.py), signal function (generate_signal)  *)
(* and the capital-aware backtest loop                                     *)
(* (backtests/backtest_capital_runner_clean.py) of the trading bot.        *)
(*                                                                         *)
(* Floats are modelled as exact rationals <<n, d>> in lowest terms with    *)
(* d > 0; <<0, 0>> is NaN.  Arithmetic on NaN gives NaN and every          *)
(* comparison with NaN is false, as in IEEE/pandas.                        *)
(***************************************************************************)
EXTENDS Integers, Sequences, FiniteSets, TLC

\* ---------------------------------------------------------------- bounds
\* longest candle frame that is loaded
MaxLen == 4
\* closes, highs and lows range over 1..MaxPrice
MaxPrice == 3
\* longest frame handed to a single generate_signal call in SpecSig
MaxSigLen == 2
\* rolling window of the RSI / ATR (the code's default is 14; the window is
\* scaled down so that frames of MaxLen rows leave the warm-up)
RsiPeriod == 3
AtrPeriod == 2
LiveLookback == 2
MaxRetries == 3
MaxTs == 3
MaxWrites == 2

\* ------------------------------------------------------------ arithmetic
NaN == <<0, 0>>
IsNaN(x) == x[2] = 0

Abs(n) == IF n < 0 THEN -n ELSE n

RECURSIVE GCD(_, _)
GCD(a, b) == IF b = 0 THEN a ELSE GCD(b, a % b)

Norm(n, d) ==
    IF d = 0 THEN NaN
    ELSE LET g == GCD(Abs(n), Abs(d))
             s == IF d < 0 THEN -1 ELSE 1
         IN  <<s * (n \div g), s * (d \div g)>>

R(n) == <<n, 1>>
Frac(n, d) == Norm(n, d)

RAdd(a, b) == Norm(a[1] * b[2] + b[1] * a[2], a[2] * b[2])
RSub(a, b) == Norm(a[1] * b[2] - b[1] * a[2], a[2] * b[2])
RMul(a, b) == Norm(a[1] * b[1], a[2] * b[2])
\* used only with a non-zero divisor (or NaN operands)
RDiv(a, b) == IF IsNaN(a) \/ IsNaN(b) THEN NaN ELSE Norm(a[1] * b[2], a[2] * b[1])
RAbs(a) == <<Abs(a[1]), a[2]>>
RNeg(a) == <<-a[1], a[2]>>

RLt(a, b) == ~IsNaN(a) /\ ~IsNaN(b) /\ a[1] * b[2] < b[1] * a[2]
RLe(a, b) == ~IsNaN(a) /\ ~IsNaN(b) /\ a[1] * b[2] <= b[1] * a[2]
RGt(a, b) == RLt(b, a)
RGe(a, b) == RLe(b, a)
REq(a, b) == ~IsNaN(a) /\ ~IsNaN(b) /\ a = b

\* Python's min(a, b) / max(a, b) on floats
RMin(a, b) == IF RLt(b, a) THEN b ELSE a
RMax(a, b) == IF RGt(b, a) THEN b ELSE a

RECURSIVE RSum(_, _, _)
\* sum of s[lo..hi]
RSum(s, lo, hi) == IF hi < lo THEN R(0) ELSE RAdd(RSum(s, lo, hi - 1), s[hi])

RECURSIVE Tab(_, _)
\* the series <<F(1), ..., F(n)>>
Tab(F(_), n) == IF n = 0 THEN <<>> ELSE Append(Tab(F, n - 1), F(n))

\* pandas Series.rolling(window, min_periods).mean() at (1-based) row k of a
\* series without NaN
RollingMean(s, k, window, min_periods) ==
    LET lo == IF k - window + 1 < 1 THEN 1 ELSE k - window + 1
        cnt == k - lo + 1
    IN  IF cnt < min_periods THEN NaN ELSE RDiv(RSum(s, lo, k), R(cnt))

\* ------------------------------------------------------------ indicators
\* calculate_rsi over the close series cl
\* calculate_rsi whose division by a zero average loss is filled with 0 like
\* the other undefined rows, so that a loss-free window never reads 100
calculate_rsi_unsaturated(cl, period) ==
    LET n == Len(cl)
        Delta(k) == IF k = 1 THEN NaN ELSE RSub(cl[k], cl[k - 1])
        Gain(k) == IF RGt(Delta(k), R(0)) THEN Delta(k) ELSE R(0)
        Loss(k) == IF RLt(Delta(k), R(0)) THEN RNeg(Delta(k)) ELSE R(0)
        gain == Tab(Gain, n)
        loss == Tab(Loss, n)
        Rsi(k) ==
            LET g == RollingMean(gain, k, period, period)
                l == RollingMean(loss, k, period, period)
            IN  IF IsNaN(g) \/ IsNaN(l) \/ l = R(0) THEN R(0)
                ELSE RSub(R(100), RDiv(R(100), RAdd(R(1), RDiv(g, l))))
    IN  Tab(Rsi, n)

calculate_rsi(cl, period) ==
    LET n == Len(cl)
        \* delta = series.diff(): NaN at the first row
        Delta(k) == IF k = 1 THEN NaN ELSE RSub(cl[k], cl[k - 1])
        \* where(cond, 0.0): 0.0 wherever the condition is false (NaN included)
        Gain(k) == IF RGt(Delta(k), R(0)) THEN Delta(k) ELSE R(0)
        Loss(k) == IF RLt(Delta(k), R(0)) THEN RNeg(Delta(k)) ELSE R(0)
        gain == Tab(Gain, n)
        loss == Tab(Loss, n)
        \* rs = avg_gain / avg_loss; rsi = 100 - 100 / (1 + rs); fillna(0)
        Rsi(k) ==
            LET g == RollingMean(gain, k, period, period)
                l == RollingMean(loss, k, period, period)
            IN  IF IsNaN(g) \/ IsNaN(l) THEN R(0)
                ELSE IF l = R(0)
                     THEN IF g = R(0) THEN R(0)  \* 0/0 = NaN, filled with 0
                          ELSE R(100)            \* x/0 = inf, 100/(1+inf) = 0
                ELSE RSub(R(100), RDiv(R(100), RAdd(R(1), RDiv(g, l))))
    IN  Tab(Rsi, n)

\* true range at row k: max over the non-NaN of high-low, |high-prev close|,
\* |low-prev close| (DataFrame.max(axis=1) skips NaN)
TrueRange(df, k) ==
    LET hl == RSub(df[k].high, df[k].low)
    IN  IF k = 1 THEN hl
        ELSE RMax(hl, RMax(RAbs(RSub(df[k].high, df[k - 1].close)),
                           RAbs(RSub(df[k].low, df[k - 1].close))))

\* calculate_atr with a window centred on row k (reads row k + 1)
calculate_atr_centred(df, period) ==
    LET n == Len(df)
        Tr(k) == TrueRange(df, k)
        tr == Tab(Tr, n)
        Atr(k) == RollingMean(tr, IF k < n THEN k + 1 ELSE k, period, 1)
    IN  Tab(Atr, n)

calculate_atr(df, period) ==
    LET n == Len(df)
        Tr(k) == TrueRange(df, k)
        tr == Tab(Tr, n)
        \* rolling(window=period, min_periods=1).mean()
        Atr(k) == RollingMean(tr, k, period, 1)
    IN  Tab(Atr, n)

\* default of add_indicators' supertrend_multiplier (1.6)
supertrend_multiplier == Frac(8, 5)

\* line 50
FinalUbStep(basic, prev_final) == RMin(basic, prev_final)

\* line 51
FinalLbStep(basic, prev_final) == RMax(basic, prev_final)

\* lines 62-76: the band value of a row after the first
SupertrendStep(prev_supertrend, prev_final_ub, close_price, final_ub, final_lb) ==
    IF prev_supertrend = prev_final_ub
    THEN (IF RGt(close_price, final_ub) THEN final_lb ELSE final_ub)
    ELSE (IF RLt(close_price, final_lb) THEN final_ub ELSE final_lb)

\* line 42
Hl2(df, n) == RDiv(RAdd(df[n].high, df[n].low), R(2))

\* line 43
BasicUb(df, atr, n) == RAdd(Hl2(df, n), RMul(supertrend_multiplier, atr[n]))

\* line 44
BasicLb(df, atr, n) == RSub(Hl2(df, n), RMul(supertrend_multiplier, atr[n]))

\* lines 42-78 for row n, given the band rows of rows 1..n-1
BandRow(df, atr, prev, n) ==
    LET basic_ub == BasicUb(df, atr, n)
        basic_lb == BasicLb(df, atr, n)
        final_ub == IF n = 1 THEN basic_ub ELSE FinalUbStep(basic_ub, prev[n - 1].final_ub)
        final_lb == IF n = 1 THEN basic_lb ELSE FinalLbStep(basic_lb, prev[n - 1].final_lb)
    IN  [final_ub |-> final_ub, final_lb |-> final_lb,
         supertrend |-> IF n = 1 THEN final_ub
                        ELSE SupertrendStep(prev[n - 1].supertrend, prev[n - 1].final_ub,
                                            df[n].close, final_ub, final_lb)]

RECURSIVE BandRows(_, _, _)
\* final bands and band value of rows 1..n
BandRows(df, atr, n) ==
    IF n = 0 THEN <<>>
    ELSE LET prev == BandRows(df, atr, n - 1)
         IN  Append(prev, BandRow(df, atr, prev, n))

\* line 59 / line 78
Trend(close_price, supertrend, k) ==
    IF k = 1 THEN -1 ELSE IF RGe(close_price, supertrend) THEN 1 ELSE -1

\* The frame's columns.  "Cap": High, Low capitalised and close present, the
\* only layout for which line 31 holds; "lower": open/high/low/close as
\* fetch_ohlc builds them; "cached": the lowercase frame get_market_data
\* returns, which already carries supertrend and trend columns.
ColumnLayouts == {"Cap", "lower", "cached"}

\* line 31: {"High", "Low", close_col}.issubset(result.columns)
HasCapitalHighLow(cols) == cols = "Cap"

\* "supertrend" in df.columns, for the frame add_indicators returns
HasSupertrendColumn(cols) == cols \in {"Cap", "cached"}

\* add_indicators: df is the input frame (rows with high, low, close and the
\* supertrend/trend the frame came with, NaN/0 when it has none)
add_indicators(df, cols, rsi_period, atr_period) ==
    LET n == Len(df)
        Close(k) == df[k].close
        rsi == calculate_rsi(Tab(Close, n), rsi_period)
        atr == calculate_atr(df, atr_period)
        bands == IF HasCapitalHighLow(cols) THEN BandRows(df, atr, n) ELSE <<>>
        Row(k) ==
            [high |-> df[k].high, low |-> df[k].low, close |-> df[k].close,
             rsi |-> rsi[k], atr |-> atr[k],
             supertrend |-> IF HasCapitalHighLow(cols) THEN bands[k].supertrend
                            ELSE df[k].supertrend,
             trend |-> IF HasCapitalHighLow(cols)
                       THEN Trend(df[k].close, bands[k].supertrend, k)
                       ELSE df[k].trend]
    IN  Tab(Row, n)

\* ---------------------------------------------------------------- signal
\* an absent fear_greed_score (None); supplied scores are 0..100
NoScore == -1

\* line 161: rows of the frame with both close and supertrend populated
IsValidRow(row) == ~IsNaN(row.close) /\ ~IsNaN(row.supertrend)

\* LastValid without the dropna fallback: only row k itself is considered
LastValidNoFallback(df, k) ==
    IF k = 0 THEN 0 ELSE IF IsValidRow(df[k]) THEN k ELSE 0

\* LastValid without the dropna: the last row, populated or not
LastValidAny(df, k) == k

\* lines 161-165: index of valid_rows.iloc[-1] in df, 0 when valid_rows is empty
RECURSIVE LastValid(_, _)
LastValid(df, k) ==
    IF k = 0 THEN 0 ELSE IF IsValidRow(df[k]) THEN k ELSE LastValid(df, k - 1)

\* line 173: the score gate
ScoreBlocks(fear_greed_score) == fear_greed_score # NoScore /\ fear_greed_score < 20

\* BuyCond without the rsi test
BuyCondNoRsi(price, supertrend, rsi) == RGt(price, supertrend)

\* BuyCond with >= for >
BuyCondAtBand(price, supertrend, rsi) == RGe(price, supertrend) /\ RLt(rsi, R(70))

\* line 176
BuyCond(price, supertrend, rsi) == RGt(price, supertrend) /\ RLt(rsi, R(70))

\* SellCond with <= for <
SellCondAtBand(price, supertrend, rsi) == RLe(price, supertrend) \/ RGt(rsi, R(70))

\* line 178
SellCond(price, supertrend, rsi) == RLt(price, supertrend) \/ RGt(rsi, R(70))

\* generate_signal(df, fear_greed_score) for a frame with layout cols;
\* "none" is Python's None
generate_signal(df, cols, fear_greed_score) ==
    IF Len(df) = 0 THEN "none"
    ELSE IF ~HasSupertrendColumn(cols) THEN "none"
    ELSE LET v == LastValid(df, Len(df))
         IN  IF v = 0 THEN "none"
             ELSE LET last == df[v]
                      price == last.close
                      supertrend == last.supertrend
                      rsi == IF IsNaN(last.rsi) THEN R(50) ELSE last.rsi
                  IN  IF ScoreBlocks(fear_greed_score) THEN "none"
                      ELSE IF BuyCond(price, supertrend, rsi) THEN "buy"
                      ELSE IF SellCond(price, supertrend, rsi) THEN "sell"
                      ELSE "none"

\* ------------------------------------------------------------- simulator
VARIABLES
    args,              \* parsed command line: capital, fee_rate
    cols,              \* column layout of the fetched frame
    df,                \* the frame fetch_ohlc returned
    ind,               \* df after add_indicators (line 83)
    phase,             \* "start", "sim", "done", "error"
    i,                 \* 1-based row of the loop of line 99 (Python's i + 1)
    capital, position, entry_px, entry_ts,
    tick_rows, summary,
    signal,            \* the loop's last generate_signal result
    fear_greed_score,  \* the external score on offer at the current step
    curve, dd, report,
    open_positions,    \* main.py: symbols with an entry in open_positions
    last_trends,       \* main.py: last_trends, as pairs <<symbol, trend>>
    orders,            \* exits and entries the cycle performed, in order
    fetched,           \* what fetch_ohlc did for the symbol
    volume,            \* what get_available_capital would return
    retry_call,        \* a wrapped function: max_retries, backoff, its outcomes
    main_retry,        \* locals and effects of main.retry's wrapper
    sent_retry,        \* locals and effects of sentiment.utils.retry's wrapper
    market_data,       \* rows of the market_data table
    cutoff,            \* utcnow() - 2 years, as a timestamp
    writes,            \* the non-empty frames written so far, in order
    read_result        \* what the last get_market_data returned

vars == <<args, cols, df, ind, phase, i, capital, position, entry_px, entry_ts,
          tick_rows, summary, signal, fear_greed_score, curve, dd, report,
          open_positions, last_trends, orders, fetched, volume,
          retry_call, main_retry, sent_retry,
          market_data, cutoff, writes, read_result>>

\* the state of the live cycle, of the retry wrappers and of the cache
live_vars == <<open_positions, last_trends, orders, fetched, volume>>
retry_vars == <<retry_call, main_retry, sent_retry>>
cache_vars == <<market_data, cutoff, writes, read_result>>

\* no live cycle is running
LiveIdle ==
    /\ open_positions = {}
    /\ last_trends = {}
    /\ orders = <<>>
    /\ fetched = "none"
    /\ volume = 0

\* no wrapped call is running
RetryIdle ==
    /\ retry_call = [max_retries |-> 0, backoff |-> 0, outcomes |-> <<>>]
    /\ main_retry = [attempt |-> 0, delay |-> 0, calls |-> 0, sleeps |-> <<>>,
                     result |-> "idle", value |-> 0]
    /\ sent_retry = [attempt |-> 0, calls |-> 0, sleeps |-> <<>>,
                     result |-> "idle", value |-> 0]

\* the cache is empty and unused
CacheIdle ==
    /\ market_data = {}
    /\ cutoff = 0
    /\ writes = <<>>
    /\ read_result = [key |-> "none", start_time |-> 0, after |-> 0, rows |-> <<>>]

Prices == 1..MaxPrice

\* --capital, --fee-rate (argparse accepts any float) and whether the
\* --start-date given lies after the --end-date
Configs ==
    { [capital |-> R(100), fee_rate |-> Frac(1, 10),  start_after_end |-> FALSE],
      [capital |-> R(100), fee_rate |-> R(0),         start_after_end |-> FALSE],
      [capital |-> R(0),   fee_rate |-> Frac(1, 10),  start_after_end |-> FALSE],
      [capital |-> R(100), fee_rate |-> Frac(1, 2),   start_after_end |-> FALSE],
      [capital |-> R(100), fee_rate |-> Frac(-1, 10), start_after_end |-> FALSE],
      [capital |-> R(100), fee_rate |-> Frac(1, 10),  start_after_end |-> TRUE] }

\* high - low of the candles of a frame
Spreads == {0, 1}

\* a candle that closes at its low: low = close, high = close + spread; the
\* frame comes without supertrend and trend columns
Candle(c, w) ==
    [high |-> R(c + w), low |-> R(c), close |-> R(c), supertrend |-> NaN, trend |-> 0]

\* frames of n candles of one spread, without supertrend and trend columns
Frames(n) ==
    { LET C(k) == Candle(closes[k], w) IN Tab(C, n) :
        <<closes, w>> \in [1..n -> Prices] \X Spreads }

\* the band stored with the rows of the market_data cache
SigBand == R(2)

\* a row of the lowercase frame get_market_data returns: the supertrend and
\* trend columns hold what the cache stored
CachedCandle(c) ==
    [high |-> R(c), low |-> R(c), close |-> R(c), supertrend |-> SigBand,
     trend |-> IF RGe(R(c), SigBand) THEN 1 ELSE -1]

\* frames of n cached candles
CachedFrames(n) ==
    { LET C(k) == CachedCandle(closes[k]) IN Tab(C, n) : closes \in [1..n -> Prices] }

\* what fetch_ohlc hands the runner under a column layout
FetchedFrames(layout, n) == IF layout = "cached" THEN CachedFrames(n) ELSE Frames(n)

\* The runner reads window["close"].  fetch_ohlc hands it the lowercase frame
\* of the cache, whose supertrend column add_indicators leaves as stored
\* ("cached"); add_indicators computes a supertrend itself only for a frame
\* with capitalised High/Low ("Cap").  A lowercase frame without a supertrend
\* column never yields a signal and is left to SpecInd and SpecSig.
SimLayouts == {"Cap", "cached"}

\* scores the external collaborator offers during a run
SimScores == {50, 10}

\* line 106
\* EnterCond without the test that no position is held
EnterCondAnyTime(sig, pos) == sig = "buy"

\* line 106
EnterCond(sig, pos) == sig = "buy" /\ pos = R(0)

\* ExitCond without the profitability gate
ExitCondNoGate(sig, pos, price, entry) == sig = "sell" /\ RGt(pos, R(0))

\* line 114
ExitCond(sig, pos, price, entry) ==
    sig = "sell" /\ RGt(pos, R(0)) /\ RGt(price, entry)

\* line 107
EntryQty(cap, fee_rate, price) == RDiv(RMul(cap, RSub(R(1), fee_rate)), price)

\* line 109
CapitalAfterEntry(cap, fee_rate) == RSub(cap, RMul(cap, fee_rate))

\* line 115
Proceeds(pos, price, fee_rate) == RMul(RMul(pos, price), RSub(R(1), fee_rate))

\* line 116
Pnl(proceeds, pos, entry) == RSub(proceeds, RMul(pos, entry))

\* TradeRecord that stamps the entry with the exit candle's time
TradeRecordSameCandle(e_ts, e_px, ts, price, pos, pnl) ==
    [entry_time |-> ts, entry_price |-> e_px, exit_time |-> ts, exit_price |-> price,
     qty |-> pos, pnl |-> pnl]

\* lines 120-130: the row appended to summary
TradeRecord(e_ts, e_px, ts, price, pos, pnl) ==
    [entry_time |-> e_ts, entry_price |-> e_px, exit_time |-> ts, exit_price |-> price,
     qty |-> pos, pnl |-> pnl]

\* EquityCurve that appends eq before adding the trade's pnl
RECURSIVE EquityCurveLagged(_, _)
EquityCurveLagged(trades, eq0) ==
    IF Len(trades) = 0 THEN <<eq0>>
    ELSE LET c == EquityCurveLagged(SubSeq(trades, 1, Len(trades) - 1), eq0)
         IN  IF Len(trades) = 1 THEN Append(c, eq0)
             ELSE Append(c, RAdd(c[Len(c)], trades[Len(trades) - 1].pnl))

\* lines 136-140
RECURSIVE EquityCurve(_, _)
EquityCurve(trades, eq0) ==
    IF Len(trades) = 0 THEN <<eq0>>
    ELSE LET c == EquityCurve(SubSeq(trades, 1, Len(trades) - 1), eq0)
         IN  Append(c, RAdd(c[Len(c)], trades[Len(trades)].pnl))

RECURSIVE CumMax(_, _)
CumMax(s, k) == IF k = 1 THEN s[1] ELSE RMax(CumMax(s, k - 1), s[k])

\* Drawdown measured from the first point of the curve instead of its peak
DrawdownFromStart(c) == LET D(k) == RSub(c[1], c[k]) IN Tab(D, Len(c))

\* line 142
Drawdown(c) == LET D(k) == RSub(CumMax(c, k), c[k]) IN Tab(D, Len(c))

RECURSIVE SeqMax(_, _)
SeqMax(s, k) == IF k = 1 THEN s[1] ELSE RMax(SeqMax(s, k - 1), s[k])

\* dashboard.py, equity_curve: equity = pnl.cumsum() + starting_capital (one
\* point per trade) and drawdown = equity.cummax() - equity
equity_curve(trades, starting_capital) ==
    LET PnlOf(k) == trades[k].pnl
        pnl == Tab(PnlOf, Len(trades))
        Equity(k) == RAdd(RSum(pnl, 1, k), starting_capital)
        equity == Tab(Equity, Len(trades))
    IN  [equity |-> equity, drawdown |-> Drawdown(equity)]

Init ==
    /\ args \in Configs
    /\ cols \in SimLayouts
    /\ df = <<>>
    /\ ind = <<>>
    /\ phase = "start"
    /\ i = 0
    /\ capital = R(0)
    /\ position = R(0)
    /\ entry_px = NaN
    /\ entry_ts = 0
    /\ tick_rows = <<>>
    /\ summary = <<>>
    /\ signal = "none"
    /\ fear_greed_score = 50
    /\ curve = <<>>
    /\ dd = <<>>
    /\ report = [trades |-> 0, net_profit |-> NaN, max_drawdown |-> NaN,
                 final_equity |-> NaN]
    /\ LiveIdle /\ RetryIdle /\ CacheIdle

\* main, lines 56-57: resolve_dates raises ValueError when start > end
Reject ==
    /\ phase = "start"
    /\ args.start_after_end
    /\ phase' = "error"
    /\ UNCHANGED <<args, cols, df, ind, i, capital, position, entry_px, entry_ts,
                   tick_rows, summary, signal, fear_greed_score, curve, dd, report>>
    /\ UNCHANGED <<live_vars, retry_vars, cache_vars>>

\* main, lines 56-74: fetch_ohlc returns an empty frame and main raises
\* RuntimeError
FetchEmpty ==
    /\ phase = "start"
    /\ ~args.start_after_end
    /\ phase' = "error"
    /\ UNCHANGED <<args, cols, df, ind, i, capital, position, entry_px, entry_ts,
                   tick_rows, summary, signal, fear_greed_score, curve, dd, report>>
    /\ UNCHANGED <<live_vars, retry_vars, cache_vars>>

\* main, lines 56-97: fetch a non-empty frame, keep its n rows inside the
\* window (none when every fetched row lies outside it), attach the
\* indicators and initialise the loop's locals
Load ==
    /\ phase = "start"
    /\ ~args.start_after_end
    /\ \E n \in 0..MaxLen : \E frame \in FetchedFrames(cols, n) :
          /\ df' = frame
          /\ ind' = add_indicators(frame, cols, RsiPeriod, AtrPeriod)
    /\ phase' = "sim"
    /\ i' = 2
    /\ capital' = args.capital
    /\ UNCHANGED <<args, cols, position, entry_px, entry_ts, tick_rows, summary,
                   signal, fear_greed_score, curve, dd, report>>
    /\ UNCHANGED <<live_vars, retry_vars, cache_vars>>

\* one iteration of the loop of lines 99-133
SimStep ==
    /\ phase = "sim"
    /\ i <= Len(ind)
    /\ LET window == SubSeq(ind, 1, i)
           price == window[i].close
           ts == i
           sig == generate_signal(window, cols, NoScore)
       IN  /\ signal' = sig
           /\ IF EnterCond(sig, position)
              THEN /\ position' = EntryQty(capital, args.fee_rate, price)
                   /\ entry_px' = price
                   /\ entry_ts' = ts
                   /\ capital' = CapitalAfterEntry(capital, args.fee_rate)
                   /\ tick_rows' = Append(tick_rows,
                                          [timestamp |-> ts, price |-> price, type |-> "entry"])
                   /\ UNCHANGED summary
              ELSE IF ExitCond(sig, position, price, entry_px)
              THEN LET proceeds == Proceeds(position, price, args.fee_rate)
                       pnl == Pnl(proceeds, position, entry_px)
                   IN  /\ capital' = RAdd(capital, proceeds)
                       /\ tick_rows' = Append(tick_rows,
                                          [timestamp |-> ts, price |-> price, type |-> "exit"])
                       /\ summary' = Append(summary,
                                          TradeRecord(entry_ts, entry_px, ts, price,
                                                      position, pnl))
                       /\ position' = R(0)
                       /\ UNCHANGED <<entry_px, entry_ts>>
              ELSE UNCHANGED <<capital, position, entry_px, entry_ts, tick_rows, summary>>
    /\ i' = i + 1
    /\ fear_greed_score' \in SimScores
    /\ UNCHANGED <<args, cols, df, ind, phase, curve, dd, report>>
    /\ UNCHANGED <<live_vars, retry_vars, cache_vars>>

\* lines 135-148: equity curve, drawdown and the printed summary
Results ==
    /\ phase = "sim"
    /\ i > Len(ind)
    /\ LET c == EquityCurve(summary, args.capital)
           d == Drawdown(c)
       IN  /\ curve' = c
           /\ dd' = d
           /\ report' = [trades |-> Len(summary),
                         net_profit |-> RSub(c[Len(c)], args.capital),
                         max_drawdown |-> SeqMax(d, Len(d)),
                         final_equity |-> c[Len(c)]]
    /\ phase' = "done"
    /\ UNCHANGED <<args, cols, df, ind, i, capital, position, entry_px, entry_ts,
                   tick_rows, summary, signal, fear_greed_score>>
    /\ UNCHANGED <<live_vars, retry_vars, cache_vars>>

Next == Reject \/ FetchEmpty \/ Load \/ SimStep \/ Results

Spec == Init /\ [][Next]_vars

\* ------------------------------------------------- generate_signal alone
\* Frames as the live cycle and the cache hand them to generate_signal: the
\* close may be NULL (a forming bar), the stored supertrend may be NULL, the
\* rsi may be NULL.  Closes lie below, at and above the stored band.
SigCloses == {NaN, R(1), R(2), R(3)}
SigRsis == {NaN, R(70), R(80)}
SigScores == {NoScore, 10, 19, 20}

SigRows(layout) ==
    { [high |-> c, low |-> c, close |-> c, rsi |-> r, atr |-> R(0), supertrend |-> st,
       trend |-> IF IsNaN(st) \/ IsNaN(c) THEN 0 ELSE IF RGe(c, st) THEN 1 ELSE -1] :
        <<c, r, st>> \in SigCloses \X SigRsis \X
                         (IF layout = "cached" THEN {NaN, SigBand} ELSE {NaN}) }

InitSig ==
    /\ args \in {a \in Configs : a.capital = R(100) /\ a.fee_rate = R(0)}
    /\ cols \in {"lower", "cached"}
    /\ df = <<>>
    /\ \E n \in 0..MaxSigLen : ind \in [1..n -> SigRows(cols)]
    /\ phase = "sig_in"
    /\ i = 0
    /\ capital = R(0)
    /\ position = R(0)
    /\ entry_px = NaN
    /\ entry_ts = 0
    /\ tick_rows = <<>>
    /\ summary = <<>>
    /\ signal = "none"
    /\ fear_greed_score \in SigScores
    /\ curve = <<>>
    /\ dd = <<>>
    /\ report = [trades |-> 0, net_profit |-> NaN, max_drawdown |-> NaN,
                 final_equity |-> NaN]
    /\ LiveIdle /\ RetryIdle /\ CacheIdle

\* one call generate_signal(ind, fear_greed_score)
CallGenerateSignal ==
    /\ phase = "sig_in"
    /\ signal' = generate_signal(ind, cols, fear_greed_score)
    /\ phase' = "sig_out"
    /\ UNCHANGED <<args, cols, df, ind, i, capital, position, entry_px, entry_ts,
                   tick_rows, summary, fear_greed_score, curve, dd, report>>
    /\ UNCHANGED <<live_vars, retry_vars, cache_vars>>

NextSig == CallGenerateSignal

SpecSig == InitSig /\ [][NextSig]_vars

\* -------------------------------------------------- add_indicators alone
\* one call add_indicators(df) on a frame of any column layout
InitInd ==
    /\ args \in {a \in Configs : a.capital = R(100) /\ a.fee_rate = R(0)}
    /\ cols \in ColumnLayouts
    /\ \E n \in 0..MaxLen : df \in FetchedFrames(cols, n)
    /\ ind = <<>>
    /\ phase = "ind_in"
    /\ i = 0
    /\ capital = R(0)
    /\ position = R(0)
    /\ entry_px = NaN
    /\ entry_ts = 0
    /\ tick_rows = <<>>
    /\ summary = <<>>
    /\ signal = "none"
    /\ fear_greed_score = NoScore
    /\ curve = <<>>
    /\ dd = <<>>
    /\ report = [trades |-> 0, net_profit |-> NaN, max_drawdown |-> NaN,
                 final_equity |-> NaN]
    /\ LiveIdle /\ RetryIdle /\ CacheIdle

\* the caller's frame after a call that wrote its columns into the argument
\* itself (result = df, no copy)
CallerFrameAliased(frame, result) ==
    LET Row(k) == [frame[k] EXCEPT !.supertrend = result[k].supertrend,
                                   !.trend = result[k].trend]
    IN  Tab(Row, Len(frame))

\* line 19: result = df.copy(); every later write goes to the copy, so the
\* caller's frame is what it was
CallerFrame(frame, result) == frame

\* a call add_indicators(df), the first or a repeated one on the same frame
CallAddIndicators ==
    /\ phase \in {"ind_in", "ind_out"}
    /\ LET result == add_indicators(df, cols, RsiPeriod, AtrPeriod)
       IN  /\ ind' = result
           /\ df' = CallerFrame(df, result)
    /\ phase' = IF phase = "ind_in" THEN "ind_out" ELSE "ind_again"
    /\ UNCHANGED <<args, cols, i, capital, position, entry_px, entry_ts,
                   tick_rows, summary, signal, fear_greed_score, curve, dd, report>>
    /\ UNCHANGED <<live_vars, retry_vars, cache_vars>>

NextInd == CallAddIndicators

SpecInd == InitInd /\ [][NextInd]_vars

\* ------------------------------------------------------- the live cycle
\* SYMBOLS (main.py line 28)
Symbols == <<"BTC/USD">>

\* fetch_ohlc(symbol, interval=240, lookback=60) returns the last lookback
\* rows of the cache, raises (caught at line 270) or returns an empty frame
FetchOutcomes == {"frame", "empty", "error"}

\* get_fear_greed_score(): below the forced-exit level, between it and the
\* entry floor of generate_signal, above both
LiveScores == {10, 17, 50}

\* get_available_capital: nothing usable, or some
Volumes == {0, 1}

\* last_trends.get(symbol, default)
LastTrend(symbol, default) ==
    IF \E p \in last_trends : p[1] = symbol
    THEN (CHOOSE p \in last_trends : p[1] = symbol)[2]
    ELSE default

\* last_trends[symbol] = trend_val (0 stands for None)
SetLastTrend(symbol, trend_val) ==
    {p \in last_trends : p[1] # symbol} \cup {<<symbol, trend_val>>}

\* line 247 reads current_price, a name bound nowhere in main.py: NameError
LimitPriceRaises == TRUE

\* DANGER_FG_SCORE_FOR_EXIT (main.py)
DangerScore == 15

\* lines 208, 224, 241-243: the branch the loop body takes
ForcedExitCond(held, score) == held /\ score < DangerScore
NormalSellCond(sig, held) == sig = "sell" /\ held
BuyEntryCond(sig, held, prev_trend, curr_trend) ==
    sig = "buy" /\ ~held /\ prev_trend = -1 /\ curr_trend = 1

\* the state at the top of the for loop of line 170: open_positions as
\* sync_open_positions loaded it, last_trends as earlier cycles left it
InitLive ==
    /\ args = [capital |-> R(0), fee_rate |-> R(0), start_after_end |-> FALSE]
    /\ cols = "cached"
    /\ df = <<>>
    /\ ind = <<>>
    /\ phase = "live"
    /\ i = 1
    /\ capital = R(0)
    /\ position = R(0)
    /\ entry_px = NaN
    /\ entry_ts = 0
    /\ tick_rows = <<>>
    /\ summary = <<>>
    /\ signal = "none"
    /\ fear_greed_score \in LiveScores
    /\ curve = <<>>
    /\ dd = <<>>
    /\ report = [trades |-> 0, net_profit |-> NaN, max_drawdown |-> NaN,
                 final_equity |-> NaN]
    /\ open_positions \in SUBSET {Symbols[k] : k \in 1..Len(Symbols)}
    /\ last_trends \in {{}} \cup {{<<Symbols[1], t>>} : t \in {-1, 0, 1}}
    /\ orders = <<>>
    /\ fetched = "none"
    /\ volume = 0
    /\ RetryIdle /\ CacheIdle

\* one iteration of the loop of lines 170-274, for symbol Symbols[i]
CycleSymbol ==
    /\ phase = "live"
    /\ i <= Len(Symbols)
    /\ \E outcome \in FetchOutcomes, frame \in CachedFrames(LiveLookback), v \in Volumes :
          LET symbol == Symbols[i]
              held == symbol \in open_positions
              df4_ind == add_indicators(frame, cols, RsiPeriod, AtrPeriod)
              last4 == df4_ind[Len(df4_ind)]
              trend_val == last4.trend
              prev_trend == LastTrend(symbol, IF Len(df4_ind) > 1
                                              THEN df4_ind[Len(df4_ind) - 1].trend
                                              ELSE trend_val)
              sig == generate_signal(df4_ind, cols, fear_greed_score)
          IN  /\ fetched' = outcome
              /\ IF outcome # "frame"
                 THEN \* lines 174-177 and 270-274: nothing is done, trend_val is None
                      /\ df' = <<>> /\ ind' = <<>> /\ volume' = 0
                      /\ last_trends' = SetLastTrend(symbol, 0)
                      /\ UNCHANGED <<signal, open_positions, orders>>
                 ELSE /\ df' = frame /\ ind' = df4_ind /\ volume' = v
                      /\ signal' = sig
                      /\ last_trends' = SetLastTrend(symbol, trend_val)
                      /\ IF ForcedExitCond(held, fear_greed_score)
                         THEN /\ orders' = Append(orders, <<symbol, "force_exit">>)
                              /\ open_positions' = open_positions \ {symbol}
                         ELSE IF NormalSellCond(sig, held)
                         THEN /\ orders' = Append(orders, <<symbol, "sell">>)
                              /\ open_positions' = open_positions \ {symbol}
                         ELSE IF /\ BuyEntryCond(sig, held, prev_trend, trend_val)
                                 /\ ~LimitPriceRaises
                                 /\ v > 0
                         THEN /\ orders' = Append(orders, <<symbol, "buy">>)
                              /\ open_positions' = open_positions \cup {symbol}
                         ELSE UNCHANGED <<open_positions, orders>>
    /\ i' = i + 1
    /\ fear_greed_score' \in LiveScores
    /\ UNCHANGED <<args, cols, phase, capital, position, entry_px, entry_ts,
                   tick_rows, summary, curve, dd, report>>
    /\ UNCHANGED <<retry_vars, cache_vars>>

NextLive == CycleSymbol

SpecLive == InitLive /\ [][NextLive]_vars


\* ------------------------------------------------- the retry decorators
\* the backoff argument of the decorators (default 5)
Backoffs == {1, 5}

\* what the wrapped function does at its k-th invocation
Outcomes == {"ok", "fail"}

RECURSIVE Pow2(_)
\* 2 ** n
Pow2(n) == IF n = 0 THEN 1 ELSE 2 * Pow2(n - 1)

\* a delay that is never doubled
MainNextDelayConstant(delay) == delay

\* main.py line 79: delay *= 2
MainNextDelay(delay) == delay * 2

\* sentiment/utils/retry.py line 16: backoff * (2 ** attempt)
SentDelay(backoff, attempt) == backoff * Pow2(attempt)

\* a call of the same wrapped function through each of the two decorators:
\* main.retry's loop starts at attempt 1 with delay = backoff (lines 69-70),
\* sentiment.utils.retry's at attempt 0 (line 10)
InitRetry ==
    /\ args = [capital |-> R(0), fee_rate |-> R(0), start_after_end |-> FALSE]
    /\ cols = "cached"
    /\ df = <<>>
    /\ ind = <<>>
    /\ phase = "retry"
    /\ i = 0
    /\ capital = R(0)
    /\ position = R(0)
    /\ entry_px = NaN
    /\ entry_ts = 0
    /\ tick_rows = <<>>
    /\ summary = <<>>
    /\ signal = "none"
    /\ fear_greed_score = NoScore
    /\ curve = <<>>
    /\ dd = <<>>
    /\ report = [trades |-> 0, net_profit |-> NaN, max_drawdown |-> NaN,
                 final_equity |-> NaN]
    /\ \E n \in 0..MaxRetries, b \in Backoffs : \E o \in [1..n -> Outcomes] :
          /\ retry_call = [max_retries |-> n, backoff |-> b, outcomes |-> o]
          /\ main_retry = [attempt |-> 1, delay |-> b, calls |-> 0, sleeps |-> <<>>,
                           result |-> "running", value |-> 0]
    /\ sent_retry = [attempt |-> 0, calls |-> 0, sleeps |-> <<>>,
                     result |-> "running", value |-> 0]
    /\ LiveIdle /\ CacheIdle

\* main.py lines 70-79: one iteration of the wrapper's for loop, or its end
MainAttempt ==
    /\ phase = "retry"
    /\ main_retry.result = "running"
    /\ LET attempt == main_retry.attempt
           k == main_retry.calls + 1
       IN  IF attempt > retry_call.max_retries
           THEN \* range(1, max_retries + 1) is exhausted: the wrapper returns None
                main_retry' = [main_retry EXCEPT !.result = "returned_none"]
           ELSE IF retry_call.outcomes[k] = "ok"
           THEN main_retry' = [main_retry EXCEPT !.calls = k, !.result = "returned",
                                                 !.value = k]
           ELSE IF attempt = retry_call.max_retries
           THEN main_retry' = [main_retry EXCEPT !.calls = k, !.result = "raised",
                                                 !.value = k]
           ELSE main_retry' = [main_retry EXCEPT
                                  !.calls = k,
                                  !.sleeps = Append(@, main_retry.delay),
                                  !.delay = MainNextDelay(@),
                                  !.attempt = attempt + 1]
    /\ UNCHANGED <<args, cols, df, ind, phase, i, capital, position, entry_px, entry_ts,
                   tick_rows, summary, signal, fear_greed_score, curve, dd, report>>
    /\ UNCHANGED <<retry_call, sent_retry, live_vars, cache_vars>>

\* sentiment/utils/retry.py lines 10-16: one iteration of the wrapper's for
\* loop, or its end
SentAttempt ==
    /\ phase = "retry"
    /\ sent_retry.result = "running"
    /\ LET attempt == sent_retry.attempt
           k == sent_retry.calls + 1
       IN  IF attempt >= retry_call.max_retries
           THEN \* range(times) is exhausted: the wrapper returns None
                sent_retry' = [sent_retry EXCEPT !.result = "returned_none"]
           ELSE IF retry_call.outcomes[k] = "ok"
           THEN sent_retry' = [sent_retry EXCEPT !.calls = k, !.result = "returned",
                                                 !.value = k]
           ELSE IF attempt = retry_call.max_retries - 1
           THEN sent_retry' = [sent_retry EXCEPT !.calls = k, !.result = "raised",
                                                 !.value = k]
           ELSE sent_retry' = [sent_retry EXCEPT
                                  !.calls = k,
                                  !.sleeps = Append(@, SentDelay(retry_call.backoff, attempt)),
                                  !.attempt = attempt + 1]
    /\ UNCHANGED <<args, cols, df, ind, phase, i, capital, position, entry_px, entry_ts,
                   tick_rows, summary, signal, fear_greed_score, curve, dd, report>>
    /\ UNCHANGED <<retry_call, main_retry, live_vars, cache_vars>>

NextRetry == MainAttempt \/ SentAttempt

\* each wrapper is a sequential loop: it takes its next step whenever the
\* wrapped function has returned or raised
SpecRetry ==
    InitRetry /\ [][NextRetry]_vars /\ WF_vars(MainAttempt) /\ WF_vars(SentAttempt)

\* ------------------------------------------------ the market_data cache
\* (symbol, interval) keys of the cache
CacheKeys == {"BTC/USD", "ETH/USD"}

\* candle timestamps
Timestamps == 1..MaxTs

\* smallest and greatest timestamp of a non-empty frame: records[0] and
\* records[-1] of the sorted frame
FirstTs(stamps) == CHOOSE t \in stamps : \A u \in stamps : t <= u
LastTs(stamps) == CHOOSE t \in stamps : \A u \in stamps : u <= t

RECURSIVE RowsInOrder(_, _)
\* the rows of a set with timestamps from t on, in timestamp order
RowsInOrder(rows, t) ==
    IF t > MaxTs THEN <<>>
    ELSE LET here == {r \in rows : r.timestamp = t}
         IN  (IF here = {} THEN <<>>
              ELSE <<[timestamp |-> t, gen |-> (CHOOSE r \in here : TRUE).gen]>>)
             \o RowsInOrder(rows, t + 1)

\* logger.py lines 116-135: UniqueConstraint(symbol, interval, timestamp)
ViolatesUnique(rows) ==
    \E r1, r2 \in rows : r1 # r2 /\ r1.key = r2.key /\ r1.timestamp = r2.timestamp

\* an empty table; the retention cutoff lies before every candle or after
\* the oldest one
InitCache ==
    /\ args = [capital |-> R(0), fee_rate |-> R(0), start_after_end |-> FALSE]
    /\ cols = "cached"
    /\ df = <<>>
    /\ ind = <<>>
    /\ phase = "cache"
    /\ i = 0
    /\ capital = R(0)
    /\ position = R(0)
    /\ entry_px = NaN
    /\ entry_ts = 0
    /\ tick_rows = <<>>
    /\ summary = <<>>
    /\ signal = "none"
    /\ fear_greed_score = NoScore
    /\ curve = <<>>
    /\ dd = <<>>
    /\ report = [trades |-> 0, net_profit |-> NaN, max_drawdown |-> NaN,
                 final_equity |-> NaN]
    /\ market_data = {}
    /\ cutoff \in {1, 2}
    /\ writes = <<>>
    /\ read_result = [key |-> "none", start_time |-> 0, after |-> 0, rows |-> <<>>]
    /\ LiveIdle /\ RetryIdle

\* logger.py lines 270-326: cache_market_data(symbol, interval, df) for a
\* frame with the timestamps stamps; gen, the number of the write, stands
\* for the frame's candle values
CacheWrite ==
    /\ phase = "cache"
    /\ Len(writes) < MaxWrites
    /\ \E key \in CacheKeys, stamps \in SUBSET Timestamps :
          IF stamps = {}
          THEN \* lines 273-274: an empty frame is not written
               UNCHANGED <<market_data, writes>>
          ELSE LET gen == Len(writes) + 1
                   records == {[key |-> key, timestamp |-> t, gen |-> gen] : t \in stamps}
                   pruned == {r \in market_data : ~(r.timestamp < cutoff)}
                   kept == {r \in pruned :
                              ~(/\ r.key = key
                                /\ r.timestamp >= FirstTs(stamps)
                                /\ r.timestamp <= LastTs(stamps))}
               IN  /\ market_data' = IF ViolatesUnique(kept \cup records)
                                     THEN market_data   \* IntegrityError: rolled back
                                     ELSE kept \cup records
                   /\ writes' = Append(writes, [key |-> key, stamps |-> stamps])
    /\ UNCHANGED <<args, cols, df, ind, phase, i, capital, position, entry_px, entry_ts,
                   tick_rows, summary, signal, fear_greed_score, curve, dd, report>>
    /\ UNCHANGED <<cutoff, read_result, live_vars, retry_vars>>

\* logger.py lines 223-268: get_market_data(symbol, interval, start_time)
CacheRead ==
    /\ phase = "cache"
    /\ \E key \in CacheKeys, start_time \in Timestamps :
          read_result' =
              [key |-> key, start_time |-> start_time, after |-> Len(writes),
               rows |-> RowsInOrder({r \in market_data : r.key = key}, start_time)]
    /\ UNCHANGED <<args, cols, df, ind, phase, i, capital, position, entry_px, entry_ts,
                   tick_rows, summary, signal, fear_greed_score, curve, dd, report>>
    /\ UNCHANGED <<market_data, cutoff, writes, live_vars, retry_vars>>

NextCache == CacheWrite \/ CacheRead

SpecCache == InitCache /\ [][NextCache]_vars

\* ================================================================ claims
\* the row the loop evaluated in its last iteration
Evaluated == i - 1

\* rows needed before the indicators are all defined
WarmUp == IF RsiPeriod > AtrPeriod THEN RsiPeriod ELSE AtrPeriod

\* greatest row of frame with close and supertrend populated, 0 if none
LatestPopulated(frame) ==
    LET valid == {k \in 1..Len(frame) : IsValidRow(frame[k])}
    IN  IF valid = {} THEN 0 ELSE CHOOSE k \in valid : \A m \in valid : m <= k

EffectiveRsi(row) == IF IsNaN(row.rsi) THEN R(50) ELSE row.rsi

\* C1: the tick log never holds two entries without an exit between them
\* (at most one position is open at any time).
C1_SinglePosition ==
    \A k \in 1..Len(tick_rows) - 1 :
        tick_rows[k].type = "entry" => tick_rows[k + 1].type = "exit"

\* C2: an iteration appends a Trade only on a sell signal at a price strictly
\* above the entry price; a sell signal while long at price <= entry price
\* leaves capital, position, ledger and tick log unchanged; every Trade of the
\* ledger has exit_price > entry_price.
C2_ProfitGate ==
    /\ [][ /\ (Len(summary') > Len(summary)
               => signal' = "sell" /\ RGt(ind[i].close, entry_px))
           /\ (/\ phase = "sim" /\ i <= Len(ind) /\ signal' = "sell"
               /\ RGt(position, R(0)) /\ RLe(ind[i].close, entry_px)
               => UNCHANGED <<capital, position, summary, tick_rows>>) ]_vars
    /\ [](\A k \in 1..Len(summary) :
             RGt(summary[k].exit_price, summary[k].entry_price))

\* C2's case: a sell signal arrived at a later row than the entry, at a price
\* not above the entry price, and the position is still open
C2_Witness ==
    /\ phase = "sim" /\ signal = "sell" /\ RGt(position, R(0))
    /\ entry_ts < Evaluated
    /\ RLe(ind[Evaluated].close, entry_px)

\* C3: after a run the equity curve has len(ledger) + 1 points, starts at the
\* initial capital, each point adds the pnl of the next trade, its last point
\* is initial capital + sum of pnl, and the reported net profit is that sum.
C3_EquityReconciles ==
    phase = "done" =>
        LET PnlOf(k) == summary[k].pnl
            pnls == Tab(PnlOf, Len(summary))
        IN  /\ Len(curve) = Len(summary) + 1
            /\ curve[1] = args.capital
            /\ \A k \in 1..Len(summary) : curve[k + 1] = RAdd(curve[k], summary[k].pnl)
            /\ curve[Len(curve)] = RAdd(args.capital, RSum(pnls, 1, Len(summary)))
            /\ report.net_profit = RSum(pnls, 1, Len(summary))

C3_Witness ==
    phase = "done" /\ Len(summary) >= 1 /\ args.fee_rate # R(0)

\* C4: at every step the indicators of the rows up to the evaluated one, as
\* computed over the whole frame, equal the indicators computed over that
\* prefix alone, and the signal the loop evaluated equals the signal of the
\* prefix's own indicators: neither depends on a later row.
C4_NoLookAhead ==
    (phase = "sim" /\ i > 2) =>
        LET prefix == add_indicators(SubSeq(df, 1, Evaluated), cols, RsiPeriod, AtrPeriod)
        IN  /\ prefix = SubSeq(ind, 1, Evaluated)
            /\ signal = generate_signal(prefix, cols, NoScore)

\* C4's case: on a frame whose supertrend add_indicators computed, a buy was
\* evaluated on a row that is followed by a different row
C4_Witness ==
    /\ phase = "sim" /\ i > 2 /\ Evaluated < Len(df)
    /\ HasCapitalHighLow(cols)
    /\ signal = "buy"
    /\ df[Evaluated + 1] # df[Evaluated]

\* C5: on a frame shorter than max(rsi_period, atr_period) generate_signal
\* returns none for every prefix.
C5_WarmUpSilent ==
    (phase \in {"sim", "done"} /\ Len(ind) < WarmUp) =>
        \A k \in 1..Len(ind) : generate_signal(SubSeq(ind, 1, k), cols, NoScore) = "none"

\* C6 as claimed: a buy is returned only on a flip, the previous row having
\* trend -1 and the evaluated row trend +1.
C6_BuyOnlyOnFlip ==
    (phase = "sim" /\ i > 2 /\ signal = "buy") =>
        /\ ind[Evaluated - 1].trend = -1
        /\ ind[Evaluated].trend = 1

\* C6 as amended: a buy is returned only on a row that is itself bullish
\* (close above the band, trend +1) with rsi below 70, whatever the trend of
\* the previous row.
C6_BuyOnlyOnBullishRow ==
    (phase = "sim" /\ i > 2 /\ signal = "buy") =>
        /\ RGt(ind[Evaluated].close, ind[Evaluated].supertrend)
        /\ ind[Evaluated].trend = 1
        /\ RLt(ind[Evaluated].rsi, R(70))

\* C6's case: on a frame whose trend add_indicators computed, a buy on a row
\* whose previous row was already bullish
C6_Witness ==
    /\ phase = "sim" /\ i > 2 /\ signal = "buy"
    /\ HasCapitalHighLow(cols)
    /\ ind[Evaluated - 1].trend = 1

\* C7: with a score supplied below the danger threshold and a populated
\* latest row, generate_signal reports sell.
C7_CrashOverride ==
    (/\ phase = "sig_out"
     /\ fear_greed_score # NoScore /\ fear_greed_score < DangerScore
     /\ Len(ind) > 0 /\ IsValidRow(ind[Len(ind)])) => signal = "sell"

\* C8: a position opened at an earlier step does not survive a step at which
\* the external score is below the danger threshold.
C8_ForcedExit ==
    (/\ phase = "sim" /\ i > 2
     /\ fear_greed_score < DangerScore
     /\ entry_ts >= 1 /\ entry_ts < Evaluated) => position = R(0)

\* C9: generate_signal never returns buy when the exit condition holds on the
\* row it evaluates (trend -1, close below the band, or rsi above 70); when
\* the entry condition's trend and score parts hold together with the exit
\* condition (close above the band, score not below 20, rsi above 70) the
\* result is sell.
C9_ExitPrecedence ==
    (phase = "sig_out" /\ LatestPopulated(ind) # 0) =>
        LET row == ind[LatestPopulated(ind)]
            exit == \/ row.trend = -1
                    \/ RLt(row.close, row.supertrend)
                    \/ RGt(EffectiveRsi(row), R(70))
        IN  /\ exit => signal # "buy"
            /\ (/\ RGt(row.close, row.supertrend)
                /\ ~ScoreBlocks(fear_greed_score)
                /\ exit) => signal = "sell"

\* C9's case: close above the band with rsi above 70, answered with sell
C9_Witness ==
    /\ phase = "sig_out" /\ LatestPopulated(ind) # 0
    /\ RGt(ind[LatestPopulated(ind)].close, ind[LatestPopulated(ind)].supertrend)
    /\ RGt(EffectiveRsi(ind[LatestPopulated(ind)]), R(70))
    /\ signal = "sell"

\* C10 as claimed: generate_signal returns none whenever the last row of its
\* input lacks close or supertrend.
C10_NoFallback ==
    (phase = "sig_out" /\ Len(ind) > 0 /\ ~IsValidRow(ind[Len(ind)])) => signal = "none"

\* C10 as amended: generate_signal returns none whenever no row of its input
\* has both close and supertrend; when the last row lacks one of them and an
\* earlier row has both, the latest such row decides the result.
C10_LatestPopulatedRowDecides ==
    (phase = "sig_out" /\ Len(ind) > 0 /\ ~IsValidRow(ind[Len(ind)])) =>
        LET v == LatestPopulated(ind)
        IN  IF v = 0 \/ ~HasSupertrendColumn(cols) \/ ScoreBlocks(fear_greed_score)
            THEN signal = "none"
            ELSE LET price == ind[v].close
                     band == ind[v].supertrend
                     rsi == EffectiveRsi(ind[v])
                 IN  /\ signal = "buy" <=> (RGt(price, band) /\ RLt(rsi, R(70)))
                     /\ signal = "sell" <=>
                            (/\ ~(RGt(price, band) /\ RLt(rsi, R(70)))
                             /\ (RLt(price, band) \/ RGt(rsi, R(70))))

\* C10's case: the last row is unpopulated and an earlier row yields a buy
C10_Witness ==
    /\ phase = "sig_out" /\ Len(ind) > 1 /\ ~IsValidRow(ind[Len(ind)])
    /\ signal = "buy"

\* the tick log ends with an entry: a position exists
PositionOpen == Len(tick_rows) > 0 /\ tick_rows[Len(tick_rows)].type = "entry"

\* the configuration lies in the range the contract covers
ConfigInRange ==
    /\ RGe(args.capital, R(0))
    /\ RGe(args.fee_rate, R(0)) /\ RLe(args.fee_rate, R(1))

\* C11: with initial capital >= 0 and 0 <= fee_rate <= 1, at every step
\* capital >= 0 and, whenever a position exists, its quantity is > 0.
C11_CapitalAndQuantity ==
    (phase \in {"sim", "done"} /\ ConfigInRange) =>
        /\ RGe(capital, R(0))
        /\ PositionOpen => RGt(position, R(0))

\* C12: every Trade of the ledger has exit_time > entry_time, and the ticks
\* of the log carry strictly increasing timestamps: a position is never
\* opened and closed on the same candle.
C12_ExitAfterEntry ==
    /\ \A k \in 1..Len(summary) : summary[k].exit_time > summary[k].entry_time
    /\ \A k \in 1..Len(tick_rows) - 1 :
           tick_rows[k].timestamp < tick_rows[k + 1].timestamp

\* C12's case: a position closed on the candle right after its entry
C12_Witness ==
    /\ Len(summary) >= 1
    /\ summary[Len(summary)].exit_time = summary[Len(summary)].entry_time + 1

\* greatest element of a non-empty set of numbers
MaxOf(S) == CHOOSE x \in S : \A y \in S : RLe(y, x)

\* drawdown_curve[k] = max(equity_curve[1..k]) - equity_curve[k] >= 0, first 0
IsDrawdownOf(d, c) ==
    /\ Len(d) = Len(c)
    /\ \A k \in 1..Len(c) :
           /\ d[k] = RSub(MaxOf({c[j] : j \in 1..k}), c[k])
           /\ RGe(d[k], R(0))
    /\ Len(c) > 0 => d[1] = R(0)

\* C13: after a run the drawdown curve is, at every index, the running peak
\* of the equity curve minus the equity, is >= 0 and starts at 0; the
\* reported max drawdown is the maximum of that curve; the dashboard's
\* equity_curve obeys the same rule for its own equity series.
C13_Drawdown ==
    phase = "done" =>
        /\ IsDrawdownOf(dd, curve)
        /\ report.max_drawdown = MaxOf({dd[k] : k \in 1..Len(dd)})
        /\ LET e == equity_curve(summary, args.capital)
           IN  IsDrawdownOf(e.drawdown, e.equity)

\* C13's case: a run whose trade lost money, so that it ends below its peak
\* equity with a positive drawdown
C13_Witness ==
    /\ phase = "done" /\ Len(curve) >= 2
    /\ RGt(dd[Len(dd)], R(0))
    /\ report.max_drawdown = dd[Len(dd)]

\* C14: for a fee_rate in [0, 1) every Trade of the ledger has pnl > 0.
C14_OnlyProfitableExits ==
    (RGe(args.fee_rate, R(0)) /\ RLt(args.fee_rate, R(1))) =>
        \A k \in 1..Len(summary) : RGt(summary[k].pnl, R(0))

\* C15: a run over an empty candle sequence or one shorter than the warm-up
\* raises no error, and ends with an empty ledger and an equity curve that
\* holds the initial capital only.
C15_ShortRunCompletes ==
    (/\ phase \in {"sim", "done", "error"}
     /\ ~args.start_after_end
     /\ Len(df) < WarmUp) =>
        /\ phase # "error"
        /\ phase = "done" => (summary = <<>> /\ curve = <<args.capital>>)

\* the configuration is one the contract rejects
BadConfig == RLt(args.fee_rate, R(0)) \/ args.start_after_end

\* C16: a run with a negative fee rate or start > end is rejected before a
\* candle is fetched or a step executes: nothing is loaded, no tick is
\* recorded and capital is untouched.
C16_BadConfigRejected ==
    BadConfig =>
        /\ phase \in {"start", "error"}
        /\ df = <<>> /\ ind = <<>>
        /\ tick_rows = <<>> /\ summary = <<>>
        /\ capital = R(0) /\ position = R(0)

\* C17: for a non-empty frame with lowercase open/high/low/close columns the
\* result of add_indicators has a supertrend column with a non-null value.
C17_LowercaseSupertrend ==
    (phase = "ind_out" /\ cols = "lower" /\ Len(df) > 0) =>
        /\ HasSupertrendColumn(cols)
        /\ \E k \in 1..Len(ind) : ~IsNaN(ind[k].supertrend)

\* C18: generate_signal returns none whenever its frame is empty, has no
\* supertrend column, or has no row with both close and supertrend
\* populated, whatever the score.
C18_NoneWithoutPopulatedRow ==
    (/\ phase = "sig_out"
     /\ (Len(ind) = 0 \/ ~HasSupertrendColumn(cols) \/ LatestPopulated(ind) = 0)) =>
        signal = "none"

\* C18's case: a frame with a supertrend column whose rows all lack the
\* band, the last one with a close and an rsi above 70, and no score
C18_Witness ==
    /\ phase = "sig_out" /\ signal = "none"
    /\ HasSupertrendColumn(cols) /\ Len(ind) = MaxSigLen
    /\ LatestPopulated(ind) = 0
    /\ ~IsNaN(ind[Len(ind)].close) /\ RGt(EffectiveRsi(ind[Len(ind)]), R(70))
    /\ fear_greed_score = NoScore

\* C19: with the score absent or >= 20 the result depends only on the last
\* row having both close and supertrend: buy iff close > supertrend and
\* rsi < 70, sell iff close < supertrend or rsi > 70, none otherwise (close =
\* supertrend with rsi <= 70, or close > supertrend with rsi = 70), a missing
\* rsi counting as 50; with a score below 20 the result is never buy; an
\* absent score gives the result of any score >= 20.
C19_SignalFunction ==
    (phase = "sig_out" /\ HasSupertrendColumn(cols) /\ LatestPopulated(ind) # 0) =>
        LET row == ind[LatestPopulated(ind)]
            price == row.close
            band == row.supertrend
            rsi == EffectiveRsi(row)
        IN  IF fear_greed_score # NoScore /\ fear_greed_score < 20
            THEN signal # "buy"
            ELSE /\ signal = "buy" <=> (RGt(price, band) /\ RLt(rsi, R(70)))
                 /\ signal = "sell" <=> (RLt(price, band) \/ RGt(rsi, R(70)))
                 /\ signal = "none" <=> \/ (price = band /\ RLe(rsi, R(70)))
                                        \/ (RGt(price, band) /\ rsi = R(70))
                 /\ signal = generate_signal(ind, cols, NoScore)
                 /\ signal = generate_signal(ind, cols, 20)

\* C19's case: close on the band with rsi exactly 70 and a score of 20: none
C19_Witness ==
    /\ phase = "sig_out" /\ LatestPopulated(ind) # 0
    /\ ind[LatestPopulated(ind)].close = ind[LatestPopulated(ind)].supertrend
    /\ ind[LatestPopulated(ind)].rsi = R(70)
    /\ fear_greed_score = 20
    /\ signal = "none"

\* C20: for every row t after the first, final_upper[t] is
\* min(upper_basic[t], final_upper[t-1]) unless close[t-1] > final_upper[t-1],
\* in which case it is upper_basic[t]; symmetrically final_lower[t] is
\* max(lower_basic[t], final_lower[t-1]) unless close[t-1] < final_lower[t-1],
\* in which case it is lower_basic[t].
C20_RatchetWithReset ==
    (phase = "ind_out" /\ HasCapitalHighLow(cols)) =>
        LET atr == calculate_atr(df, AtrPeriod)
            b == BandRows(df, atr, Len(df))
        IN  \A t \in 2..Len(df) :
                /\ b[t].final_ub =
                       IF RGt(df[t - 1].close, b[t - 1].final_ub)
                       THEN BasicUb(df, atr, t)
                       ELSE RMin(BasicUb(df, atr, t), b[t - 1].final_ub)
                /\ b[t].final_lb =
                       IF RLt(df[t - 1].close, b[t - 1].final_lb)
                       THEN BasicLb(df, atr, t)
                       ELSE RMax(BasicLb(df, atr, t), b[t - 1].final_lb)

\* final bands of the frame df, as add_indicators computes them
FinalBands == BandRows(df, calculate_atr(df, AtrPeriod), Len(df))

\* C21: trend_sign is +1 only on rows whose band value is the final lower
\* band and -1 only on rows whose band value is the final upper band; the
\* first row is the upper band with trend_sign -1; the band leaves the upper
\* band only when the close is above it and the lower band only when the
\* close is below it.
C21_TrendMatchesBand ==
    (phase = "ind_out" /\ HasCapitalHighLow(cols)) =>
        LET b == FinalBands
        IN  /\ \A k \in 1..Len(ind) :
                   /\ ind[k].trend = 1 => ind[k].supertrend = b[k].final_lb
                   /\ ind[k].trend = -1 => ind[k].supertrend = b[k].final_ub
            /\ Len(ind) > 0 => (ind[1].trend = -1 /\ ind[1].supertrend = b[1].final_ub)
            /\ \A k \in 2..Len(ind) :
                   /\ (/\ ind[k - 1].supertrend = b[k - 1].final_ub
                       /\ ind[k].supertrend # b[k].final_ub)
                      => RGt(ind[k].close, b[k].final_ub)
                   /\ (/\ ind[k - 1].supertrend # b[k - 1].final_ub
                       /\ ind[k].supertrend # b[k].final_lb)
                      => RLt(ind[k].close, b[k].final_lb)

\* row k has a full window of rsi_period deltas, none of them a loss
NoLossWindow(k) ==
    /\ k >= RsiPeriod + 1
    /\ \A j \in (k - RsiPeriod + 1)..k : RGe(df[j].close, df[j - 1].close)

\* C22: on every row with a full window of deltas whose average loss is 0,
\* flat prices included, the rsi is exactly 100.
C22_RsiSaturates ==
    phase = "ind_out" =>
        \A k \in 1..Len(ind) : NoLossWindow(k) => ind[k].rsi = R(100)

C27_BandsNeverCross ==
    (phase = "ind_out" /\ HasCapitalHighLow(cols)) =>
        \A k \in 1..Len(df) : RLe(FinalBands[k].final_lb, FinalBands[k].final_ub)

\* the frame is a steady uptrend: every close above the one before, every
\* candle with the same high - low range
SteadyUptrend(frame) ==
    /\ \A k \in 2..Len(frame) : RGt(frame[k].close, frame[k - 1].close)
    /\ \A k \in 1..Len(frame) :
           RSub(frame[k].high, frame[k].low) = RSub(frame[1].high, frame[1].low)

\* a finished run of the whole pipeline over a steady uptrend at least one
\* rsi window long, with capital to invest
UptrendRun ==
    /\ phase = "done" /\ HasCapitalHighLow(cols)
    /\ SteadyUptrend(df) /\ Len(df) >= RsiPeriod
    /\ ConfigInRange /\ RGt(args.capital, R(0)) /\ RLt(args.fee_rate, R(1))

EntryFee(t) ==
    RMul(RDiv(RMul(t.qty, t.entry_price), RSub(R(1), args.fee_rate)), args.fee_rate)

\* pnl and entry fee of the ledger's rows
LedgerPnl == Tab(LAMBDA k : summary[k].pnl, Len(summary))
LedgerEntryFees == Tab(LAMBDA k : EntryFee(summary[k]), Len(summary))

\* C25: cash is conserved over a round trip: whenever the simulator is flat,
\* capital = initial capital + the ledger's pnl - the entry fees paid; the
\* amount invested in a position is not also kept as cash.
C25_CashConserved ==
    (/\ phase \in {"sim", "done"} /\ ~PositionOpen
     /\ ConfigInRange /\ RLt(args.fee_rate, R(1))) =>
        capital = RSub(RAdd(args.capital, RSum(LedgerPnl, 1, Len(summary))),
                       RSum(LedgerEntryFees, 1, Len(summary)))

\* a run in progress or finished with capital > 0 and 0 <= fee_rate < 1
FundedRun ==
    /\ phase \in {"sim", "done"}
    /\ RGt(args.capital, R(0))
    /\ RGe(args.fee_rate, R(0)) /\ RLt(args.fee_rate, R(1))

\* s is an initial segment of t
IsPrefix(s, t) == Len(s) <= Len(t) /\ SubSeq(t, 1, Len(s)) = s

\* the tick log alternates entry, exit, ... from an entry; its exits are as
\* many as the ledger's rows, its entries one more exactly when a position
\* is held; ledger row k carries the times and prices of the k-th entry and
\* the k-th exit tick
TickLogMatchesLedger ==
    /\ \A k \in 1..Len(tick_rows) :
           tick_rows[k].type = IF k % 2 = 1 THEN "entry" ELSE "exit"
    /\ Len(tick_rows) = 2 * Len(summary) + (IF RGt(position, R(0)) THEN 1 ELSE 0)
    /\ \A k \in 1..Len(summary) :
           /\ summary[k].entry_time = tick_rows[2 * k - 1].timestamp
           /\ summary[k].entry_price = tick_rows[2 * k - 1].price
           /\ summary[k].exit_time = tick_rows[2 * k].timestamp
           /\ summary[k].exit_price = tick_rows[2 * k].price

\* C26: in a run with initial capital > 0 and 0 <= fee_rate < 1 the tick log
\* alternates entry, exit, entry, ... starting with an entry, has as many
\* exits as the ledger has rows and one more entry exactly when a position
\* is open, the k-th ledger row carries the times and prices of the k-th
\* entry and exit tick, and both only grow by appending.
C26_TickLogAndLedger ==
    /\ [](FundedRun => TickLogMatchesLedger)
    /\ [][FundedRun => (IsPrefix(tick_rows, tick_rows') /\ IsPrefix(summary, summary'))]_vars

\* C26's case: a position closed and another one opened after it
C26_Witness ==
    /\ FundedRun /\ Len(tick_rows) = 3 /\ Len(summary) = 1
    /\ RGt(position, R(0))

\* C28: in the live cycle at most one of forced exit, normal sell and buy is
\* performed for a symbol, in that priority; and a symbol without an open
\* position whose signal is buy, whose trend flipped from -1 to +1 and whose
\* available volume is > 0 ends the cycle with an open position recorded in
\* open_positions.
C28_OneActionAndFlipEntry ==
    [][ (phase = "live" /\ i' = i + 1 /\ fetched' = "frame") =>
          LET symbol == Symbols[i]
              held == symbol \in open_positions
              n == Len(ind')
              prev_trend == LastTrend(symbol, ind'[n - 1].trend)
              done == SubSeq(orders', Len(orders) + 1, Len(orders'))
          IN  /\ Len(done) <= 1
              /\ ForcedExitCond(held, fear_greed_score) => done = << <<symbol, "force_exit">> >>
              /\ (~ForcedExitCond(held, fear_greed_score) /\ NormalSellCond(signal', held))
                     => done = << <<symbol, "sell">> >>
              /\ (/\ ~held /\ signal' = "buy" /\ prev_trend = -1 /\ ind'[n].trend = 1
                  /\ volume' > 0)
                     => (symbol \in open_positions' /\ done = << <<symbol, "buy">> >>) ]_vars

\* what the claim says of one wrapper w that was given max_retries >= 1
RetryContract(w) ==
    LET n == retry_call.max_retries
        o == retry_call.outcomes
        b == retry_call.backoff
    IN  /\ w.calls <= n
        /\ \A k \in 1..(w.calls - 1) : o[k] = "fail"
        /\ w.result = "running" => \A k \in 1..w.calls : o[k] = "fail"
        /\ w.result = "returned" => (o[w.calls] = "ok" /\ w.value = w.calls)
        /\ w.result = "raised" => (w.calls = n /\ o[n] = "fail" /\ w.value = n)
        /\ w.result \in {"running", "returned", "raised"}
        /\ Len(w.sleeps) = IF w.result = "running" \/ w.calls = 0 THEN w.calls
                            ELSE w.calls - 1
        /\ \A k \in 1..Len(w.sleeps) : w.sleeps[k] = b * Pow2(k - 1)

\* both wrappers have returned or raised
RetryDone == main_retry.result # "running" /\ sent_retry.result # "running"

\* C29: a call through retry(N, backoff) with N >= 1 invokes the function at
\* most N times, returns the first success without further invocations,
\* re-raises the N-th exception when all N fail, sleeps only between
\* attempts with delays backoff, 2*backoff, 4*backoff, ...; main.retry and
\* sentiment.utils.retry make the same invocations and sleeps; and the call
\* terminates.
C29_Retry ==
    /\ []((phase = "retry" /\ retry_call.max_retries >= 1) =>
             /\ RetryContract(main_retry)
             /\ RetryContract(sent_retry)
             /\ RetryDone =>
                    /\ main_retry.calls = sent_retry.calls
                    /\ main_retry.sleeps = sent_retry.sleeps
                    /\ main_retry.result = sent_retry.result
                    /\ main_retry.value = sent_retry.value)
    /\ <>RetryDone

\* C29's case: every allowed invocation failed, with two sleeps in between
C29_Witness ==
    /\ phase = "retry" /\ RetryDone
    /\ retry_call.max_retries >= 3
    /\ main_retry.result = "raised" /\ sent_retry.result = "raised"
    /\ Len(main_retry.sleeps) = retry_call.max_retries - 1

\* the number of the last write for a key, 0 when there is none
LastWriteOf(key) ==
    LET S == {k \in 1..Len(writes) : writes[k].key = key}
    IN  IF S = {} THEN 0 ELSE CHOOSE k \in S : \A j \in S : j <= k

\* the rows of write k, in timestamp order
WrittenRows(k) ==
    RowsInOrder({[timestamp |-> t, gen |-> k] : t \in writes[k].stamps}, 1)

\* C30: a read of a key that follows the writes returns exactly the rows of
\* the last frame written for that key, in timestamp order (rows of an
\* earlier frame for the key do not survive), and the cache never holds two
\* rows with the same (symbol, interval, timestamp).
C30_ReadAfterWrite ==
    phase = "cache" =>
        /\ ~ViolatesUnique(market_data)
        /\ (/\ read_result.key # "none"
            /\ read_result.after = Len(writes)
            /\ read_result.start_time = 1
            /\ LastWriteOf(read_result.key) > 0
            /\ \A k \in 1..Len(writes) : \A t \in writes[k].stamps : t >= cutoff)
           => read_result.rows = WrittenRows(LastWriteOf(read_result.key))

====
